---- MODULE Spec2Model ----
(***************************************************************************)
(* Model of the client measurement loop of voip_probe.py (run_client) and  *)
(* of its pure helpers (emodel_mos, rfc3550_jitter_update, hstep).         *)
(*                                                                         *)
(* Time is a wall clock counted in ticks; time.time() and time.time_ns()   *)
(* both read it.  Real-valued quantities (ms, percent, R, MOS) are fixed   *)
(* point numbers in thousandths: a model value v stands for v/1000.        *)
(* A value that Python holds as "None or a float" is None or <<v>>.        *)
(***************************************************************************)
EXTENDS Integers, Sequences, FiniteSets, TLC

(* ---------------- bounds of the model ---------------- *)
MaxDelaySteps == 16    \* delays up to this many steps of 25 ms
MaxLossSteps == 10     \* losses up to this many steps of 1 %
MaxJStart == 4         \* starting jitter up to this many steps of 0.5 ms
MaxClock == 4          \* the wall clock stops advancing at this tick
SeqMod == 3            \* stands for 2^32 of "(seq + 1) & 0xffffffff"
WinMin == 2            \* stands for the 100 of max(pps*10, 100)
WinPerPps == 1         \* stands for the 10 of max(pps*10, 100)

(* ---------------- units and run configuration ---------------- *)
TicksPerSec == 1       \* clock ticks per second
MsPerTick == 1000      \* milliseconds per clock tick
pps == 1               \* --pps
warmup == 1            \* --warmup, seconds
report_every == 1      \* --report-every, seconds
burstR == 1            \* --burstR
DurationSecs == 4      \* --duration, seconds
ShortDurationSecs == 2 \* --duration of the runs checked for termination

MAGIC == "ABCD1357"
BadMagic == "00000000"
Codecs == {"g711", "g729", "opus"}
CODEC_PARAMS == [c \in Codecs |->
                   CASE c = "g711" -> [Ie |-> 0, Bpl |-> 25]
                     [] c = "g729" -> [Ie |-> 11, Bpl |-> 19]
                     [] c = "opus" -> [Ie |-> 5, Bpl |-> 14]]

None == << >>
Some(v) == << v >>
SeqValues == 0 .. (SeqMod - 1)

Max(a, b) == IF a >= b THEN a ELSE b
Min(a, b) == IF a <= b THEN a ELSE b
Abs(x) == IF x < 0 THEN 0 - x ELSE x

RECURSIVE SumSeq(_)
SumSeq(s) == IF s = << >> THEN 0 ELSE Head(s) + SumSeq(Tail(s))

(* s[-n:] of Python *)
LastN(s, n) == IF Len(s) <= n THEN s ELSE SubSeq(s, Len(s) - n + 1, Len(s))

(* ---------------- pure helpers ---------------- *)
hstep(x) == IF x > 0 THEN 1 ELSE 0

(* floor(1000 * x / d) without leaving 32 bits *)
MulDiv1000(x, d) == 1000 * (x \div d) + (1000 * (x % d)) \div d

(* emodel_mos without the clamp of line 64 *)
emodel_mos_unclamped(delay_ms, loss_percent, codec, burst) ==
  LET prm == IF codec \in Codecs THEN CODEC_PARAMS[codec] ELSE CODEC_PARAMS["g711"]
      Ie == prm.Ie
      Bpl == prm.Bpl
      d == Max(0, delay_ms)
      Ppl == Max(0, loss_percent)
      IdV == (24 * d) \div 1000 + ((110 * (d - 177300)) \div 1000) * hstep(d - 177300)
      IeV == IF Ppl > 0
               THEN 1000 * Ie + MulDiv1000((95 - Ie) * Bpl * Ppl, Ppl + 1000 * burst * Bpl)
               ELSE 1000 * Ie
      RV == 94200 - IdV - IeV
      Rt == RV \div 100
      cubic == 1000 + (35000 * Rt + (7 * (Rt * (Rt - 600) * (1000 - Rt))) \div 100) \div 10000
      mosV == IF RV <= 0 THEN 1000
              ELSE IF RV >= 100000 THEN 4500
              ELSE cubic
  IN  [mos |-> mosV, R |-> RV, Id |-> IdV, Ie_eff |-> IeV]

(* emodel_mos with R = 94.2 - Id + Ie_eff *)
emodel_mos_sign(delay_ms, loss_percent, codec, burst) ==
  LET prm == IF codec \in Codecs THEN CODEC_PARAMS[codec] ELSE CODEC_PARAMS["g711"]
      Ie == prm.Ie
      Bpl == prm.Bpl
      d == Max(0, delay_ms)
      Ppl == Max(0, loss_percent)
      IdV == (24 * d) \div 1000 + ((110 * (d - 177300)) \div 1000) * hstep(d - 177300)
      IeV == IF Ppl > 0
               THEN 1000 * Ie + MulDiv1000((95 - Ie) * Bpl * Ppl, Ppl + 1000 * burst * Bpl)
               ELSE 1000 * Ie
      RV == 94200 - IdV + IeV
      Rt == RV \div 100
      cubic == 1000 + (35000 * Rt + (7 * (Rt * (Rt - 600) * (1000 - Rt))) \div 100) \div 10000
      mosV == IF RV <= 0 THEN 1000
              ELSE IF RV >= 100000 THEN 4500
              ELSE Max(1000, Min(4500, cubic))
  IN  [mos |-> mosV, R |-> RV, Id |-> IdV, Ie_eff |-> IeV]

(* delay_ms and loss_percent in thousandths; the result in thousandths *)
emodel_mos(delay_ms, loss_percent, codec, burst) ==
  LET prm == IF codec \in Codecs THEN CODEC_PARAMS[codec] ELSE CODEC_PARAMS["g711"]
      Ie == prm.Ie
      Bpl == prm.Bpl
      d == Max(0, delay_ms)
      Ppl == Max(0, loss_percent)
      IdV == (24 * d) \div 1000 + ((110 * (d - 177300)) \div 1000) * hstep(d - 177300)
      IeV == IF Ppl > 0
               THEN 1000 * Ie + MulDiv1000((95 - Ie) * Bpl * Ppl, Ppl + 1000 * burst * Bpl)
               ELSE 1000 * Ie
      RV == 94200 - IdV - IeV
      Rt == RV \div 100
      cubic == 1000 + (35000 * Rt + (7 * (Rt * (Rt - 600) * (1000 - Rt))) \div 100) \div 10000
      mosV == IF RV <= 0 THEN 1000
              ELSE IF RV >= 100000 THEN 4500
              ELSE Max(1000, Min(4500, cubic))
  IN  [mos |-> mosV, R |-> RV, Id |-> IdV, Ie_eff |-> IeV]

rfc3550_jitter_frozen(J_prev, diff_ms) ==
  IF diff_ms = 0 THEN J_prev ELSE J_prev + (Abs(diff_ms) - J_prev) \div 16

rfc3550_jitter_update(J_prev, diff_ms) == J_prev + (Abs(diff_ms) - J_prev) \div 16

LossPctOfAllReceived(win, recvd) ==
  LET n == Len(win)
      k == Cardinality(recvd)
  IN  IF n > 0 THEN (100000 * (n - k)) \div n ELSE 0

(* 100*(len(win)-recv_win)/len(win) if win else 0.0, in thousandths of a percent *)
LossPct(win, recvd) ==
  LET n == Len(win)
      k == Cardinality({i \in 1 .. n : win[i] \in recvd})
  IN  IF n > 0 THEN (100000 * (n - k)) \div n ELSE 0

(* deque(maxlen=max(pps*10, 100)) *)
WindowCap == Max(pps * WinPerPps, WinMin)

DequeAppendNoEvict(w, x) == Append(w, x)

(* window.append(seq) *)
DequeAppend(w, x) == IF Len(w) >= WindowCap THEN Append(Tail(w), x) ELSE Append(w, x)

(* ---------------- state ---------------- *)
VARIABLES
  clock,            \* the wall clock
  pc,               \* position of run_client: "top", "recv" or "closed"
  codec, duration, csv_path,   \* arguments of run_client
  start, now, next_send, next_report,
  seq, sent_times, received, window,
  rtt_samples, oneway_samples, last_transit_ms, J_ms,
  total_sent, total_recv,
  send_err,         \* outcome of the send decision of the iteration under way
  data,             \* the datagram the receive poll of this iteration returned, if any
  sample,           \* elapsed, mos, R, Id, Ie_eff of the last resolved sample
  csv_file, csv_rows, sock,
  stats,            \* the last aggregate line printed, or None
  exit_cause,
  call, ret, prev   \* a call of a pure helper, its result, the call before it

vars == << clock, pc, codec, duration, csv_path, start, now, next_send, next_report,
           seq, sent_times, received, window, rtt_samples, oneway_samples,
           last_transit_ms, J_ms, total_sent, total_recv, send_err, data,
           sample, csv_file, csv_rows, sock, stats, exit_cause,
           call, ret, prev >>

config == << codec, duration, csv_path, start >>
correlation == << sent_times, received, window, total_sent >>
samples == << rtt_samples, oneway_samples, last_transit_ms, J_ms, total_recv >>
resources == << csv_file, sock >>
harness == << call, ret, prev >>

Interval == TicksPerSec \div pps
Running == pc \in {"top", "recv"}

Init ==
  /\ clock = 0
  /\ pc = "top"
  /\ codec = "g711"
  /\ duration = Some(DurationSecs * TicksPerSec)
  /\ csv_path = TRUE
  /\ start = 0
  /\ now = 0
  /\ next_send = 0
  /\ next_report = report_every * TicksPerSec
  /\ seq = 0
  /\ sent_times = << >>
  /\ received = {}
  /\ window = << >>
  /\ rtt_samples = << >>
  /\ oneway_samples = << >>
  /\ last_transit_ms = None
  /\ J_ms = 0
  /\ total_sent = 0
  /\ total_recv = 0
  /\ send_err = "none"
  /\ data = None
  /\ sample = None
  /\ csv_file = IF csv_path THEN "open" ELSE "none"
  /\ csv_rows = << >>
  /\ sock = "open"
  /\ stats = None
  /\ exit_cause = "none"
  /\ call = None /\ ret = None /\ prev = None

(* ---------------- teardown ---------------- *)
CloseSinkNever(f) == f

(* if csv_file: csv_file.close() *)
CloseSink(f) == IF f = "open" THEN "closed" ELSE f

(* finally: close the sink and the socket *)
Teardown ==
  /\ csv_file' = CloseSink(csv_file)
  /\ sock' = "closed"
  /\ pc' = "closed"

(* time passes while the loop waits in recvfrom *)
Tick ==
  /\ pc = "recv"
  /\ clock < MaxClock
  /\ clock' = clock + 1
  /\ UNCHANGED << pc, config, harness, now, next_send, next_report, seq, correlation, samples,
                  send_err, data, sample, resources, csv_rows, stats, exit_cause >>

(* ---------------- top of the loop and maybe-send ---------------- *)
DurationExpiredLate(t) == duration # None /\ (t - start) > duration[1]

(* duration and (now - start) >= duration *)
DurationExpired(t) == duration # None /\ (t - start) >= duration[1]

(* now = time.time(); if duration and (now - start) >= duration: break *)
DurationBreak ==
  /\ pc = "top"
  /\ DurationExpired(clock)
  /\ now' = clock
  /\ Teardown
  /\ exit_cause' = "duration"
  /\ UNCHANGED << clock, config, harness, next_send, next_report, seq, correlation, samples,
                  send_err, data, sample, csv_rows, stats >>

AdvanceScheduleFromNow ==
  /\ seq' = (seq + 1) % SeqMod
  /\ next_send' = clock + Interval

AdvanceScheduleNoWrap ==
  /\ seq' = seq + 1
  /\ next_send' = next_send + Interval

(* seq = (seq + 1) & 0xffffffff; next_send += interval_s *)
AdvanceSchedule ==
  /\ seq' = (seq + 1) % SeqMod
  /\ next_send' = next_send + Interval

(* sent_times[seq] = send_ns; window.append(seq); total_sent += 1 *)
SendSucceeded ==
  /\ sent_times' = [s \in (DOMAIN sent_times) \cup {seq} |->
                      IF s = seq THEN clock ELSE sent_times[s]]
  /\ window' = DequeAppend(window, seq)
  /\ total_sent' = total_sent + 1
  /\ UNCHANGED received

SendFailedCounted ==
  /\ total_sent' = total_sent + 1
  /\ UNCHANGED << sent_times, window, received >>

(* except Exception as err: print("send error:", err) *)
SendFailed == UNCHANGED << sent_times, window, total_sent, received >>

(* if now >= next_send *)
SendDue(t) == t >= next_send

NoSend ==
  /\ pc = "top"
  /\ ~DurationExpired(clock)
  /\ now' = clock
  /\ ~SendDue(clock)
  /\ send_err' = "none"
  /\ data' = None
  /\ pc' = "recv"
  /\ UNCHANGED << clock, config, harness, next_send, next_report, seq, correlation, samples,
                  sample, resources, csv_rows, stats, exit_cause >>

SendOk ==
  /\ pc = "top"
  /\ ~DurationExpired(clock)
  /\ now' = clock
  /\ SendDue(clock)
  /\ SendSucceeded
  /\ AdvanceSchedule
  /\ send_err' = "ok"
  /\ data' = None
  /\ pc' = "recv"
  /\ UNCHANGED << clock, config, harness, next_report, samples,
                  sample, resources, csv_rows, stats, exit_cause >>

SendFail ==
  /\ pc = "top"
  /\ ~DurationExpired(clock)
  /\ now' = clock
  /\ SendDue(clock)
  /\ SendFailed
  /\ AdvanceSchedule
  /\ send_err' = "error"
  /\ data' = None
  /\ pc' = "recv"
  /\ UNCHANGED << clock, config, harness, next_report, samples,
                  sample, resources, csv_rows, stats, exit_cause >>

(* ---------------- maybe-report ---------------- *)
(* if now >= next_report *)
ReportDue == now >= next_report

(* lines 188-203, evaluated after the receive poll of the same iteration *)
Report ==
  LET avg_rtt == IF rtt_samples' # << >>
                   THEN SumSeq(rtt_samples') \div Len(rtt_samples') ELSE 0
      avg_oneway == IF oneway_samples' # << >>
                      THEN SumSeq(oneway_samples') \div Len(oneway_samples') ELSE 0
      loss_total == IF total_sent # 0
                      THEN (100000 * (total_sent - total_recv')) \div total_sent ELSE 0
      loss_win == LossPct(window, received')
      e == emodel_mos(avg_oneway, loss_win, codec, burstR)
  IN  /\ stats' = Some([sent |-> total_sent, recv |-> total_recv',
                                 loss_total |-> loss_total, loss_win |-> loss_win,
                                 RTT_avg |-> avg_rtt, OWD_avg |-> avg_oneway,
                                 jitter |-> J_ms', MOS |-> e.mos])
      /\ next_report' = next_report + report_every * TicksPerSec

(* the rest of the iteration after the receive poll: maybe-report, sleep *)
FinishIteration ==
  /\ IF ReportDue THEN Report ELSE UNCHANGED << stats, next_report >>
  /\ pc' = "top"

(* continue: back to the top of the loop *)
Continue ==
  /\ UNCHANGED << stats, next_report >>
  /\ pc' = "top"

(* ---------------- poll-receive ---------------- *)
PktSize == 16          \* PKT_STRUCT.size

Datagrams ==
  [len : {PktSize - 1}, r_seq : {0}, s_ns : {0}, magic : {MAGIC}]
    \cup [len : {PktSize}, r_seq : SeqValues, s_ns : {0}, magic : {BadMagic}]
    \cup {[len |-> PktSize, r_seq |-> q, magic |-> MAGIC,
            s_ns |-> IF q \in DOMAIN sent_times THEN sent_times[q] ELSE 0] : q \in SeqValues}

(* if len(data) >= PKT_STRUCT.size *)
LenOk(d) == d.len >= PktSize

MagicOkAlways(d) == TRUE

(* if magic != MAGIC: continue *)
MagicOk(d) == d.magic = MAGIC

IsDuplicateNever(d) == FALSE

(* if r_seq in received: continue *)
IsDuplicate(d) == d.r_seq \in received

(* if r_seq in sent_times *)
IsPending(d) == d.r_seq \in DOMAIN sent_times

MarkedAndCounted ==
  /\ total_recv' = total_recv + 1
  /\ UNCHANGED << rtt_samples, oneway_samples, last_transit_ms, J_ms, sample, csv_rows >>

(* r_seq is not in sent_times: nothing after received.add(r_seq) runs *)
MarkedOnly == UNCHANGED << samples, sample, csv_rows >>

GateOpenEarly(el, n) == el > warmup * TicksPerSec /\ n > 1

(* elapsed > warmup and len(oneway_samples) > 2 *)
GateOpen(el, n) == el > warmup * TicksPerSec /\ n > 2

Truthy(x) == x # None /\ x[1] # 0
Blank == << >>
Round3(v) == v
Round1(v) ==
  LET q == v \div 100
      r == v % 100
  IN  IF r > 50 \/ (r = 50 /\ q % 2 = 1) THEN q + 1 ELSE q

(* round(x, 3) if x else "" *)
Cell3(x) == IF Truthy(x) THEN Some(Round3(x[1])) ELSE Blank
Cell1(x) == IF Truthy(x) THEN Some(Round1(x[1])) ELSE Blank

(* the resolved-sample branch, lines 151-182 *)
AcceptSample(d) ==
  LET recv_ns == clock
      rtt_ms == (recv_ns - sent_times[d.r_seq]) * MsPerTick * 1000
      oneway_ms == rtt_ms \div 2
      ows == Append(oneway_samples, oneway_ms)
      transit_ms == (recv_ns - d.s_ns) * MsPerTick * 1000
      J == IF last_transit_ms # None
             THEN rfc3550_jitter_update(J_ms, transit_ms - last_transit_ms[1])
             ELSE J_ms
      loss_pct == LossPct(window, received')
      el == clock - start
      recent == LastN(ows, pps)
      avg_oneway == SumSeq(recent) \div Max(1, Min(Len(ows), pps))
      e == emodel_mos(avg_oneway, loss_pct, codec, burstR)
      open == GateOpen(el, Len(ows))
      smp == [elapsed |-> el,
              mos |-> IF open THEN Some(e.mos) ELSE None,
              R |-> IF open THEN Some(e.R) ELSE None,
              Id |-> IF open THEN Some(e.Id) ELSE None,
              Ie_eff |-> IF open THEN Some(e.Ie_eff) ELSE None]
  IN  /\ rtt_samples' = Append(rtt_samples, rtt_ms)
      /\ oneway_samples' = ows
      /\ total_recv' = total_recv + 1
      /\ J_ms' = J
      /\ last_transit_ms' = Some(transit_ms)
      /\ sample' = Some(smp)
      /\ csv_rows' = IF csv_path
                       THEN Append(csv_rows,
                              [ts_utc |-> clock, seq |-> d.r_seq,
                               rtt_ms |-> Round3(rtt_ms), oneway_ms_est |-> Round3(oneway_ms),
                               jitter_ms |-> Round3(J), loss_pct_window |-> Round3(loss_pct),
                               mos |-> Cell3(smp.mos), r_factor |-> Cell1(smp.R),
                               Id |-> Cell3(smp.Id), Ie_eff |-> Cell3(smp.Ie_eff)])
                       ELSE csv_rows

(* data, _ = sock.recvfrom(2048) returned the datagram d *)
Recv(d) ==
  /\ pc = "recv"
  /\ data' = Some(d)
  /\ send_err' = "none"
  /\ IF ~LenOk(d)
       THEN /\ UNCHANGED << received, samples, sample, csv_rows >>
            /\ FinishIteration
       ELSE IF ~MagicOk(d)
       THEN /\ UNCHANGED << received, samples, sample, csv_rows >>
            /\ Continue
       ELSE IF IsDuplicate(d)
       THEN /\ UNCHANGED << received, samples, sample, csv_rows >>
            /\ Continue
       ELSE /\ received' = received \cup {d.r_seq}
            /\ IF IsPending(d)
                 THEN AcceptSample(d)
                 ELSE MarkedOnly
            /\ FinishIteration
  /\ UNCHANGED << clock, config, harness, now, next_send, seq, sent_times, window, total_sent,
                  resources, exit_cause >>

RecvDatagram == \E d \in Datagrams : Recv(d)

(* except socket.timeout: pass *)
RecvTimeout ==
  /\ pc = "recv"
  /\ data' = None
  /\ send_err' = "none"
  /\ UNCHANGED << received, samples, sample, csv_rows >>
  /\ FinishIteration
  /\ UNCHANGED << clock, config, harness, now, next_send, seq, sent_times, window, total_sent,
                  resources, exit_cause >>

(* recvfrom raises an exception that is not socket.timeout: no handler in   *)
(* the loop catches it, the finally block runs and the exception leaves     *)
(* run_client                                                              *)
RecvError ==
  /\ pc = "recv"
  /\ Teardown
  /\ exit_cause' = "error"
  /\ UNCHANGED << clock, config, harness, now, next_send, next_report, seq, correlation, samples,
                  send_err, data, sample, csv_rows, stats >>

(* ---------------- cancellation ---------------- *)
(* except KeyboardInterrupt: print("[client] interrupted"), then finally *)
Interrupt ==
  /\ Running
  /\ Teardown
  /\ exit_cause' = "interrupt"
  /\ UNCHANGED << clock, config, harness, now, next_send, next_report, seq, correlation, samples,
                  send_err, data, sample, csv_rows, stats >>

Next ==
  \/ Tick
  \/ DurationBreak
  \/ NoSend
  \/ SendOk
  \/ SendFail
  \/ RecvDatagram
  \/ RecvTimeout
  \/ RecvError
  \/ Interrupt

Spec == Init /\ [][Next]_vars

(* a run with the short duration *)
ShortInit ==
  /\ clock = 0 /\ pc = "top" /\ codec = "g711" /\ csv_path = TRUE
  /\ duration = Some(ShortDurationSecs * TicksPerSec)
  /\ start = 0 /\ now = 0 /\ next_send = 0
  /\ next_report = report_every * TicksPerSec
  /\ seq = 0 /\ sent_times = << >> /\ received = {} /\ window = << >>
  /\ rtt_samples = << >> /\ oneway_samples = << >>
  /\ last_transit_ms = None /\ J_ms = 0
  /\ total_sent = 0 /\ total_recv = 0
  /\ send_err = "none" /\ data = None /\ sample = None
  /\ csv_file = "open" /\ csv_rows = << >> /\ sock = "open"
  /\ stats = None /\ exit_cause = "none"
  /\ call = None /\ ret = None /\ prev = None

(* the loop runs, every receive poll returns, and the clock advances *)
LiveSpec ==
  /\ ShortInit
  /\ [][Next]_vars
  /\ WF_vars(DurationBreak \/ NoSend \/ SendOk \/ SendFail)
  /\ WF_vars(RecvDatagram \/ RecvTimeout)
  /\ SF_vars(Tick)

(* ---------------- the pure helpers on their own ---------------- *)
DelaySet == {i * 25000 : i \in 0 .. MaxDelaySteps} \cup {1, 177300, 177301}
LossSet == {i * 1000 : i \in 0 .. MaxLossSteps} \cup {1, 500, 33333, 100000}
CodecNames == Codecs \cup {"amr"}
JStarts == {i * 500 : i \in 0 .. MaxJStart}
DiffSet == {0, 160}

EmodelCalls ==
  [fn : {"emodel_mos"}, delay_ms : DelaySet, loss_percent : LossSet, codec : CodecNames]
JitterCalls ==
  [fn : {"rfc3550_jitter_update"}, J_prev : JStarts, diff_ms : DiffSet]

(* no client is running; one call of a helper is about to be made *)
PureInit ==
  /\ clock = 0 /\ pc = "pure" /\ codec = "g711" /\ csv_path = FALSE
  /\ duration = None
  /\ start = 0 /\ now = 0 /\ next_send = 0 /\ next_report = 0
  /\ seq = 0 /\ sent_times = << >> /\ received = {} /\ window = << >>
  /\ rtt_samples = << >> /\ oneway_samples = << >>
  /\ last_transit_ms = None /\ J_ms = 0
  /\ total_sent = 0 /\ total_recv = 0
  /\ send_err = "none" /\ data = None /\ sample = None
  /\ csv_file = "none" /\ csv_rows = << >> /\ sock = "none"
  /\ stats = None /\ exit_cause = "none"
  /\ call \in EmodelCalls \cup JitterCalls
  /\ ret = None /\ prev = None

client == << clock, pc, config, now, next_send, next_report, seq, correlation, samples,
            send_err, data, sample, resources, csv_rows, stats, exit_cause >>

(* mos, R, Id, Ie_eff = emodel_mos(d, p, codec, burstR) *)
EvalEmodel ==
  /\ pc = "pure" /\ call.fn = "emodel_mos" /\ ret = None
  /\ ret' = Some(emodel_mos(call.delay_ms, call.loss_percent, call.codec, burstR))
  /\ UNCHANGED << client, call, prev >>

(* J = rfc3550_jitter_update(J, diff) *)
EvalJitter ==
  /\ pc = "pure" /\ call.fn = "rfc3550_jitter_update" /\ ret = None
  /\ ret' = Some(rfc3550_jitter_update(call.J_prev, call.diff_ms))
  /\ UNCHANGED << client, call, prev >>

(* the next call of emodel_mos: same delay and codec, another loss *)
NextLoss ==
  /\ pc = "pure" /\ call.fn = "emodel_mos" /\ ret # None /\ prev = None
  /\ \E p \in LossSet \ {call.loss_percent} :
        call' = [call EXCEPT !.loss_percent = p]
  /\ prev' = Some([call |-> call, ret |-> ret[1]])
  /\ ret' = None
  /\ UNCHANGED client

(* the next jitter update: J_ms is fed back, as at line 159 *)
NextJitter ==
  /\ pc = "pure" /\ call.fn = "rfc3550_jitter_update" /\ ret # None
  /\ \E df \in DiffSet :
        call' = [fn |-> "rfc3550_jitter_update", J_prev |-> ret[1], diff_ms |-> df]
  /\ prev' = Some([call |-> call, ret |-> ret[1]])
  /\ ret' = None
  /\ UNCHANGED client

PureNext ==
  \/ EvalEmodel
  \/ EvalJitter
  \/ NextLoss
  \/ NextJitter

PureSpec == PureInit /\ [][PureNext]_vars

TypeOK ==
  /\ clock \in 0 .. MaxClock
  /\ pc \in {"top", "recv", "closed", "pure"}
  /\ seq \in SeqValues
  /\ received \subseteq SeqValues
  /\ Len(window) <= WindowCap

(* ---------------- properties ---------------- *)
WellFormed(d) == d.len >= PktSize /\ d.magic = MAGIC
Last(s) == s[Len(s)]

(* C1: a well-formed datagram whose seq is already in the received set     *)
(* changes neither total_recv, the RTT and one-way samples, the jitter     *)
(* state nor the CSV rows; total_recv never exceeds the number of distinct *)
(* seq values received.                                                    *)
C1_DuplicateIgnored ==
  /\ [](total_recv <= Cardinality(received))
  /\ [][(pc = "recv" /\ data' # None /\ WellFormed(data'[1])
           /\ data'[1].r_seq \in received)
          => UNCHANGED << total_recv, rtt_samples, oneway_samples, J_ms,
                          last_transit_ms, csv_rows, received >>]_vars

(* a datagram for a seq whose CSV row was written at an earlier tick has   *)
(* just been polled                                                        *)
C1_Witness ==
  /\ pc = "top" /\ data # None /\ WellFormed(data[1])
  /\ \E i \in 1 .. Len(csv_rows) :
        csv_rows[i].seq = data[1].r_seq /\ csv_rows[i].ts_utc < clock

(* C2: the echo of a probe that reuses, after the counter wrapped, a seq   *)
(* value credited in an earlier epoch is resolved: it increments           *)
(* total_recv and appends an RTT and a one-way sample.                     *)
C2_WrapKeepsCorrelation ==
  [][(/\ pc = "recv" /\ data' # None /\ WellFormed(data'[1])
      /\ IsPending(data'[1])
      /\ data'[1].s_ns = sent_times[data'[1].r_seq]
      /\ \E i \in 1 .. Len(csv_rows) :
            /\ csv_rows[i].seq = data'[1].r_seq
            /\ csv_rows[i].ts_utc < sent_times[data'[1].r_seq])
     => (/\ total_recv' = total_recv + 1
         /\ Len(rtt_samples') = Len(rtt_samples) + 1
         /\ Len(oneway_samples') = Len(oneway_samples) + 1)]_vars

(* C3: a receive failure other than the poll timeout never makes the loop  *)
(* exit.                                                                   *)
C3_RecvErrorNonFatal == ~(pc = "closed" /\ exit_cause = "error")

(* C4: a failed send leaves the loop running, advances the sequence        *)
(* counter and the next-send deadline by one step, and changes neither the *)
(* pending map, the window nor total_sent.                                 *)
C4_SendFailureSkipped ==
  [][(pc = "top" /\ send_err' = "error")
     => (/\ pc' = "recv"
         /\ seq' = (seq + 1) % SeqMod
         /\ next_send' = next_send + Interval
         /\ UNCHANGED << sent_times, window, total_sent >>)]_vars

C4_Witness ==
  /\ pc = "recv" /\ send_err = "error"
  /\ seq = 2 /\ total_sent = 1 /\ DOMAIN sent_times = {0}

(* C5: a datagram that is too short or carries another magic value changes *)
(* no measurement state and writes no CSV row.                             *)
C5_MalformedIgnored ==
  [][(pc = "recv" /\ data' # None /\ ~WellFormed(data'[1]))
     => UNCHANGED << received, sent_times, window, total_sent, total_recv,
                     rtt_samples, oneway_samples, J_ms, last_transit_ms,
                     csv_rows >>]_vars

(* a wrong-magic datagram for a pending, not yet received seq was polled   *)
C5_Witness ==
  /\ pc = "top" /\ data # None /\ data[1].len >= PktSize /\ data[1].magic # MAGIC
  /\ data[1].r_seq \in DOMAIN sent_times /\ data[1].r_seq \notin received

(* C6: an iteration that finds the report deadline reached emits the       *)
(* aggregate line before the next iteration starts, whatever the receive   *)
(* poll returned.                                                          *)
C6_ReportNotPostponed ==
  [][(pc = "recv" /\ ReportDue /\ pc' = "top")
     => (stats' # None /\ next_report' = next_report + report_every * TicksPerSec)]_vars

C8_RowMatchesEstimate ==
  (csv_rows # << >> /\ sample # None)
    => LET row == Last(csv_rows)
           s == sample[1]
       IN  IF s.mos = None
             THEN row.mos = Blank /\ row.r_factor = Blank
                    /\ row.Id = Blank /\ row.Ie_eff = Blank
             ELSE /\ row.mos = Some(Round3(s.mos[1]))
                  /\ row.r_factor = Some(Round1(s.R[1]))
                  /\ row.Id = Some(Round3(s.Id[1]))
                  /\ row.Ie_eff = Some(Round3(s.Ie_eff[1]))

(* C9: once the client is closed the socket is closed and an opened sink   *)
(* is closed, on every exit path; no row is written to a closed sink.      *)
C9_SinkClosedOnExit ==
  /\ [](pc = "closed" => (sock = "closed" /\ (csv_path => csv_file = "closed")))
  /\ [][csv_file = "closed" => csv_rows' = csv_rows]_vars

C9_Witness ==
  /\ pc = "closed" /\ exit_cause = "error"
  /\ csv_file = "closed" /\ sock = "closed" /\ Len(csv_rows) >= 1

(* C10: with a duration configured the client eventually closes, and an    *)
(* iteration that begins once the elapsed time has reached the duration    *)
(* sends nothing.                                                          *)
C10_Terminates ==
  /\ (duration # None) => <>(pc = "closed")
  /\ [][(pc = "top" /\ duration # None /\ clock - start >= duration[1])
         => (pc' = "closed" /\ UNCHANGED << total_sent, seq, sent_times, window >>)]_vars

C10_Witness ==
  /\ pc = "closed" /\ exit_cause = "duration"
  /\ total_sent >= 1 /\ clock - start >= duration[1]

(* C11: the next-send instant starts at the start instant and changes only *)
(* in the send decision at the top of an iteration, where it grows by      *)
(* exactly the fixed interval whatever the clock reads; so it is always    *)
(* the start instant plus a whole number of intervals.                     *)
C11_AbsoluteDeadline ==
  /\ [](/\ next_send >= start
        /\ (next_send - start) % Interval = 0
        /\ (pc = "recv" /\ send_err = "none") => next_send > now)
  /\ [][\/ next_send' = next_send
        \/ /\ pc = "top" /\ pc' = "recv" /\ send_err' # "none"
           /\ next_send' = next_send + Interval]_vars

(* a send decision taken late: the deadline stays behind the clock *)
C11_Witness ==
  /\ pc = "recv" /\ send_err # "none"
  /\ next_send < now /\ next_send = start + 2 * Interval

(* v is 100*(n-k)/n in thousandths of a percent, n the length of win and   *)
(* k the number of its entries in recvd; 0 for an empty window             *)
WinLossIs(v, win, recvd) ==
  LET n == Len(win)
      k == Cardinality({i \in 1 .. n : win[i] \in recvd})
  IN  /\ 0 <= v /\ v <= 100000
      /\ IF n = 0 THEN v = 0
           ELSE v * n <= 100000 * (n - k) /\ 100000 * (n - k) < (v + 1) * n

(* C12: the window loss written with a resolved sample and the one printed *)
(* in the aggregate line equal 100*(n-k)/n over the entries resident in    *)
(* the window at that moment, and lie in [0, 100].                         *)
C12_WindowLossExact ==
  [][/\ (Len(csv_rows') = Len(csv_rows) + 1)
          => WinLossIs(Last(csv_rows').loss_pct_window, window', received')
     /\ (next_report' # next_report)
          => (stats' # None /\ WinLossIs(stats'[1].loss_win, window', received'))]_vars

(* a row and an aggregate line with half of a two-entry window received *)
C12_Witness ==
  /\ csv_rows # << >> /\ Last(csv_rows).loss_pct_window = 50000
  /\ stats # None /\ stats[1].loss_win = 50000 /\ Len(window) = 2

(* C13: a well-formed datagram whose seq is neither received nor pending   *)
(* is added to the received set and changes nothing else of the            *)
(* measurement: no count, no sample, no jitter update, no CSV row.         *)
C13_UnmatchedMarkedOnly ==
  [][(/\ pc = "recv" /\ data' # None /\ WellFormed(data'[1])
      /\ data'[1].r_seq \notin received
      /\ data'[1].r_seq \notin DOMAIN sent_times)
     => (/\ received' = received \cup {data'[1].r_seq}
         /\ UNCHANGED << total_recv, rtt_samples, oneway_samples, J_ms,
                         last_transit_ms, csv_rows >>)]_vars

(* a datagram for a seq that was never sent has been marked received *)
C13_Witness ==
  /\ pc = "top" /\ data # None /\ WellFormed(data[1])
  /\ data[1].r_seq \in received /\ data[1].r_seq \notin DOMAIN sent_times
  /\ total_recv = 1

(* C14: every send decision, successful or failed, moves seq to            *)
(* (seq + 1) mod 2^32 and nothing else changes it; after n decisions seq   *)
(* is n mod 2^32, and every seq sent fits the field.                       *)
C14_SeqWraps ==
  /\ [](/\ seq \in 0 .. (SeqMod - 1)
        /\ seq = ((next_send - start) \div Interval) % SeqMod
        /\ DOMAIN sent_times \subseteq 0 .. (SeqMod - 1)
        /\ \A i \in 1 .. Len(window) : window[i] \in 0 .. (SeqMod - 1))
  /\ [][IF pc = "top" /\ send_err' # "none"
          THEN seq' = IF seq = SeqMod - 1 THEN 0 ELSE seq + 1
          ELSE seq' = seq]_vars

(* the counter has wrapped to 0 after SeqMod decisions *)
C14_Witness ==
  /\ pc = "recv" /\ send_err # "none"
  /\ seq = 0 /\ next_send = start + SeqMod * Interval

(* C18: the window has min(W, total_sent) entries, W = max(pps*10, 100),   *)
(* all of them seq values that were sent; only a successful send changes   *)
(* it, appending the sent seq at the tail and dropping the head only when  *)
(* the window was full.                                                    *)
C18_WindowFifo ==
  /\ [](/\ Len(window) = Min(Max(pps * WinPerPps, WinMin), total_sent)
        /\ \A i \in 1 .. Len(window) : window[i] \in DOMAIN sent_times)
  /\ [][IF pc = "top" /\ send_err' = "ok"
          THEN window' = IF Len(window) = Max(pps * WinPerPps, WinMin)
                           THEN Append(Tail(window), seq)
                           ELSE Append(window, seq)
          ELSE window' = window]_vars

(* a successful send into a full window has evicted the oldest entry *)
C18_Witness ==
  /\ pc = "recv" /\ send_err = "ok"
  /\ total_sent = Max(pps * WinPerPps, WinMin) + 1
  /\ Len(window) = Max(pps * WinPerPps, WinMin)

(* C19: total_recv never exceeds total_sent and equals the number of RTT   *)
(* samples, of one-way samples and of CSV rows; the cumulative loss of an  *)
(* aggregate line lies in [0, 100].                                        *)
C19_Totals ==
  /\ total_recv <= total_sent
  /\ total_recv = Len(rtt_samples)
  /\ total_recv = Len(oneway_samples)
  /\ csv_path => total_recv = Len(csv_rows)
  /\ stats # None => (/\ stats[1].recv <= stats[1].sent
                       /\ 0 <= stats[1].loss_total
                       /\ stats[1].loss_total <= 100000)

C19_Witness ==
  /\ stats # None /\ stats[1].recv >= 1 /\ stats[1].sent > stats[1].recv
  /\ stats[1].loss_total > 0 /\ stats[1].loss_total < 100000
  /\ Len(csv_rows) = total_recv

(* C20: every window entry that is in the received set was resolved (it    *)
(* has a CSV row), so the window entries counted as received are at most   *)
(* total_recv.                                                             *)
C20_WindowCreditsResolved ==
  /\ \A i \in 1 .. Len(window) :
        window[i] \in received
          => \E j \in 1 .. Len(csv_rows) : csv_rows[j].seq = window[i]
  /\ Cardinality({i \in 1 .. Len(window) : window[i] \in received}) <= total_recv

IsEmodel == call # None /\ call.fn = "emodel_mos"
IsJitter == call # None /\ call.fn = "rfc3550_jitter_update"

(* C15: the MOS returned for a non-negative delay, a non-negative loss and *)
(* any codec name, known or not, lies in [1.0, 4.5].                       *)
C15_MosRange ==
  (IsEmodel /\ ret # None) => (1000 <= ret[1].mos /\ ret[1].mos <= 4500)

(* the clamp acted: R is positive and the MOS is the floor 1.0 *)
C15_Witness ==
  /\ IsEmodel /\ ret # None /\ call.codec = "amr"
  /\ ret[1].R > 0 /\ ret[1].mos = 1000

(* C16: of two calls with the same delay and codec, the one with the       *)
(* larger loss never returns the larger MOS.                               *)
C16_MosMonotoneInLoss ==
  (IsEmodel /\ ret # None /\ prev # None)
    => LET a == prev[1].call
           b == call
       IN  (a.delay_ms = b.delay_ms /\ a.codec = b.codec)
             => /\ (a.loss_percent <= b.loss_percent) => (ret[1].mos <= prev[1].ret.mos)
                /\ (b.loss_percent <= a.loss_percent) => (prev[1].ret.mos <= ret[1].mos)

C16_Witness ==
  /\ IsEmodel /\ ret # None /\ prev # None
  /\ prev[1].call.loss_percent < call.loss_percent
  /\ 1000 < ret[1].mos /\ ret[1].mos < prev[1].ret.mos

(* C17: a zero-delta update that follows a zero-delta update returns the   *)
(* J the earlier one returned.                                             *)
C17_ZeroDeltaKeepsJ ==
  (IsJitter /\ ret # None /\ prev # None
     /\ prev[1].call.diff_ms = 0 /\ call.diff_ms = 0)
    => ret[1] = prev[1].ret

(* C17 as amended: a zero-delta update returns J - J/16, that is 15/16 of  *)
(* J: J itself only when J is 0, a smaller non-negative value otherwise,   *)
(* at the first such update and at every later one.                        *)
C17_ZeroDeltaDecays ==
  (IsJitter /\ ret # None /\ call.diff_ms = 0)
    => /\ 15 * call.J_prev - 16 < 16 * ret[1]
       /\ 16 * ret[1] <= 15 * call.J_prev
       /\ (call.J_prev = 0) => (ret[1] = 0)
       /\ (call.J_prev > 0) => (0 <= ret[1] /\ ret[1] < call.J_prev)

(* a second zero-delta update in a row has lowered J again *)
C17_Witness ==
  /\ IsJitter /\ ret # None /\ prev # None
  /\ prev[1].call.diff_ms = 0 /\ call.diff_ms = 0
  /\ call.J_prev = prev[1].ret
  /\ 0 < ret[1] /\ ret[1] < prev[1].ret

====
